---- MODULE Spec2Model ----
(***************************************************************************)
(* Model of src/app.py: the Slack MCP server.                              *)
(*                                                                         *)
(*   get_token_from_service         the token-service client               *)
(*   get_slack_client_from_context  the credential resolver                *)
(*   slack_*                        the 13 tool handlers                   *)
(*                                                                         *)
(* Python values are records [t, s, n]: t is the Python type ("none",      *)
(* "str", "num"; "absent" for a missing dict key), s the characters of a   *)
(* str (a sequence of one-character strings), n the value of a number.     *)
(***************************************************************************)
EXTENDS Integers, Sequences, FiniteSets, TLC

VARIABLES
    SLACK_BOT_TOKEN,   \* module global, app.py:11
    SLACK_USER_TOKEN,  \* module global, app.py:12
    phase,             \* "idle": waiting for a request; "done": a call has run
    call,              \* the inputs of the call that ran last
    client,            \* what get_slack_client_from_context did in that call
    out,               \* what the tool handler did in that call
    platform           \* the platform (Slack Web API) calls issued in that call

vars == <<SLACK_BOT_TOKEN, SLACK_USER_TOKEN, phase, call, client, out, platform>>

----------------------------------------------------------------------------
(* Bounds of the model *)

\* longest JSON array the token service answers with
MaxList == 2
\* longest message history the platform returns
MaxMsgs == 3

----------------------------------------------------------------------------
(* Python values *)

PyNone == [t |-> "none", s |-> <<>>, n |-> 0]
PyAbsent == [t |-> "absent", s |-> <<>>, n |-> 0]
PyStr(chars) == [t |-> "str", s |-> chars, n |-> 0]
PyNum(k) == [t |-> "num", s |-> <<>>, n |-> k]

\* Python truthiness: None, "" and 0 are falsy
Truthy(v) ==
    CASE v.t = "str" -> Len(v.s) > 0
      [] v.t = "num" -> v.n # 0
      [] OTHER -> FALSE

\* a or b
PyOr(a, b) == IF Truthy(a) THEN a ELSE b

\* str.startswith
StartsWith(chars, prefix) ==
    /\ Len(chars) >= Len(prefix)
    /\ SubSeq(chars, 1, Len(prefix)) = prefix

\* dict.get(key): None when the key is missing
DictGet(d, key) ==
    IF key \in DOMAIN d /\ d[key].t # "absent" THEN d[key] ELSE PyNone

XOXP == <<"x", "o", "x", "p", "-">>
XOXB == <<"x", "o", "x", "b", "-">>
XOXE == <<"x", "o", "x", "e", "-">>

----------------------------------------------------------------------------
(* The token service (get_token_from_service) *)

FieldNames == {"access_token", "bot_token", "authed_user_token"}

NoFields == [k \in FieldNames |-> PyAbsent]

\* a JSON value: a dict (its fields), a list (its items) or anything else
JDict(fields) == [shape |-> "dict", fields |-> fields, items |-> <<>>]
JList(items) == [shape |-> "list", fields |-> NoFields, items |-> items]
JOther == [shape |-> "other", fields |-> NoFields, items |-> <<>>]

\* an HTTP exchange with the token service: status is what httpx.get,
\* raise_for_status and response.json make of it
HttpOk(body) == [status |-> "ok", body |-> body]
HttpFail(how) == [status |-> how, body |-> JOther]

\* get_token_from_service(user_id, provider): the request it sends, whether
\* it raises ValueError, and the data it returns
get_token_from_service(user_id, provider, http) ==
    LET params == [provider |-> provider,
                   user_id |-> IF Truthy(user_id) THEN user_id ELSE PyAbsent]
    IN  IF http.status # "ok"
        THEN [raised |-> TRUE, data |-> JOther, params |-> params]
        ELSE IF http.body.shape = "list" /\ Len(http.body.items) > 0
        THEN [raised |-> FALSE, data |-> http.body.items[1], params |-> params]
        ELSE [raised |-> FALSE, data |-> http.body, params |-> params]

----------------------------------------------------------------------------
(* The credential resolver (get_slack_client_from_context) *)

\* events of one resolver call, in order
Fetch(params) == [ev |-> "fetch", user_id |-> params.user_id]
Ev(name) == [ev |-> name, user_id |-> PyAbsent]

\* token = token_data.get("access_token") and the test
\* "token and token.startswith('xoxp-')" on what a fetch returned: "accept"
\* the token, "reject" it, or "raise" (caught by the caller)
CheckAccessToken(f) ==
    LET token == DictGet(f.data.fields, "access_token")
        how == IF f.raised THEN "raise"
               ELSE IF f.data.shape # "dict" THEN "raise"   \* no .get
               ELSE IF ~Truthy(token) THEN "reject"
               ELSE IF token.t # "str" THEN "raise"          \* no .startswith
               ELSE IF StartsWith(token.s, XOXP) THEN "accept"
               ELSE "reject"
    IN  [how |-> how,
         token |-> IF how = "accept" THEN token ELSE PyNone,
         trace |-> <<Fetch(f.params)>>]

\* one service lookup with the check of its access_token (app.py:49-52 and
\* 68-71)
Lookup(user_id, http) ==
    CheckAccessToken(get_token_from_service(user_id, "slack", http))

\* input(...).strip(): EOFError on a closed stdin, else the line typed
InputEof == [eof |-> TRUE, line |-> PyNone]
InputLine(chars) == [eof |-> FALSE, line |-> PyStr(chars)]

\* the except branch of the first lookup: prompt for a user_id on the
\* terminal and look that one up
ManualStep(inp, http2) ==
    IF inp.eof
    THEN [token |-> PyNone, trace |-> <<Ev("input")>>]
    ELSE IF Truthy(inp.line)
    THEN LET l == Lookup(inp.line, http2)
         IN  [token |-> l.token, trace |-> <<Ev("input")>> \o l.trace]
    ELSE [token |-> PyNone, trace |-> <<Ev("input")>>]

\* the guard of the service step, "if not use_bot and user_id", and the two
\* guards that drop one of its conjuncts
ServiceGuardNoIdentity(use_bot, user_id) == ~use_bot
ServiceGuardAnyClass(use_bot, user_id) == Truthy(user_id)
ServiceGuard(use_bot, user_id) == ~use_bot /\ Truthy(user_id)

\* Priority 1: the token service
ServiceStep(use_bot, user_id, http1, inp, http2) ==
    IF ServiceGuard(use_bot, user_id)
    THEN LET l == Lookup(user_id, http1)
         IN  IF l.how = "raise"
             THEN LET m == ManualStep(inp, http2)
                  IN  [token |-> m.token, trace |-> l.trace \o m.trace]
             ELSE [token |-> l.token, trace |-> l.trace]
    ELSE [token |-> PyNone, trace |-> <<>>]

BotHeaders == <<"x-slack-bot-token", "X-Slack-Bot-Token">>
UserHeaders == <<"x-slack-user-token", "X-Slack-User-Token">>

\* a request context: ctx is None or has no request_context ("none"), its
\* request_context is falsy ("empty"), or it is a mapping whose 'headers'
\* entry (or {} when missing) is headers
HeaderNames == {"x-slack-bot-token", "X-Slack-Bot-Token",
                "x-slack-user-token", "X-Slack-User-Token"}
NoHeaders == [k \in HeaderNames |-> PyAbsent]
CtxNone == [kind |-> "none", headers |-> NoHeaders]
CtxEmpty == [kind |-> "empty", headers |-> NoHeaders]
CtxWith(headers) == [kind |-> "full", headers |-> headers]

\* Priority 2: the request headers
HeaderStep(ctx, use_bot) ==
    IF ctx.kind = "full"
    THEN LET names == IF use_bot THEN BotHeaders ELSE UserHeaders
         IN  PyOr(DictGet(ctx.headers, names[1]), DictGet(ctx.headers, names[2]))
    ELSE PyNone

\* Priority 3: the environment fallback (EnvStepOtherClass reads the
\* variable of the other class)
EnvStepOtherClass(use_bot) == IF use_bot THEN SLACK_USER_TOKEN ELSE SLACK_BOT_TOKEN
EnvStep(use_bot) == IF use_bot THEN SLACK_BOT_TOKEN ELSE SLACK_USER_TOKEN

\* the messages of the two ValueErrors, one sequence of words per line
BotErrorMessage == <<
    <<"Slack", "Bot", "Token", "not", "provided.", "Options:">>,
    <<"1)", "Set", "SLACK_BOT_TOKEN", "in", ".env", "file">>,
    <<"2)", "Provide", "X-Slack-Bot-Token", "header">>,
    <<"3)", "Pass", "user_id", "with", "bot", "token", "in", "Supabase">> >>
UserErrorMessage == <<
    <<"Slack", "User", "Token", "not", "provided.", "Options:">>,
    <<"1)", "Provide", "user_id", "parameter", "(recommended)">>,
    <<"2)", "Send", "X-Slack-User-Token", "header">>,
    <<"3)", "Set", "SLACK_USER_TOKEN", "in", ".env", "file">>,
    <<>>,
    <<"Tip:", "Pass", "user_id='your-supabase-user-id'", "to", "fetch",
      "token", "automatically">> >>

Returned(token, source, trace) ==
    [kind |-> "client", token |-> token, source |-> source,
     message |-> <<>>, trace |-> trace]
Raised(message, trace) ==
    [kind |-> "error", token |-> PyNone, source |-> "none",
     message |-> message, trace |-> trace]
NoClient ==
    [kind |-> "idle", token |-> PyNone, source |-> "none",
     message |-> <<>>, trace |-> <<>>]

\* the order of the sources: the first truthy token makes the client, and
\* without one the ValueError of the class is raised. The trace records the
\* steps entered: "headers" is the test of ctx at app.py:84, whatever ctx
\* holds, "env" the test of the module global
FirstUsable(use_bot, s, h, e) ==
    IF Truthy(s.token) THEN Returned(s.token, "service", s.trace)
    ELSE IF Truthy(h) THEN Returned(h, "header", s.trace \o <<Ev("headers")>>)
    ELSE IF Truthy(e)
    THEN Returned(e, "env", s.trace \o <<Ev("headers"), Ev("env")>>)
    ELSE Raised(IF use_bot THEN BotErrorMessage ELSE UserErrorMessage,
                s.trace \o <<Ev("headers"), Ev("env")>>)

\* get_slack_client_from_context(ctx, use_bot, user_id), given what the
\* token service answers (http1, http2) and what the terminal answers (inp)
get_slack_client_from_context(ctx, use_bot, user_id, http1, inp, http2) ==
    FirstUsable(use_bot, ServiceStep(use_bot, user_id, http1, inp, http2),
                HeaderStep(ctx, use_bot), EnvStep(use_bot))

----------------------------------------------------------------------------
(* What the environment can supply *)

Tok(prefix, tag) == PyStr(prefix \o <<tag>>)

\* os.getenv: None when unset, else a string
BotEnvValues == {PyNone, PyStr(<<>>), Tok(XOXB, "e"), Tok(XOXP, "e")}
UserEnvValues == {PyNone, PyStr(<<>>), Tok(XOXP, "f")}

UserIds == {PyNone, PyStr(<<>>), PyStr(<<"u", "1">>)}

Rec(access, bot, authed) ==
    [k \in FieldNames |->
        CASE k = "access_token" -> access
          [] k = "bot_token" -> bot
          [] OTHER -> authed]

AccessValues ==
    {PyAbsent, PyNone, PyStr(<<>>), PyNum(0), PyNum(7),
     Tok(XOXP, "s"), Tok(XOXB, "s"), Tok(XOXE, "s")}

Records ==
    {Rec(a, PyAbsent, PyAbsent) : a \in AccessValues}
    \cup {Rec(PyAbsent, Tok(XOXB, "b"), PyAbsent),
          Rec(PyAbsent, PyAbsent, Tok(XOXB, "a")),
          Rec(Tok(XOXP, "s"), Tok(XOXB, "b"), PyAbsent),
          Rec(Tok(XOXP, "s"), PyAbsent, PyAbsent),
          Rec(Tok(XOXB, "s"), Tok(XOXB, "b"), Tok(XOXB, "a"))}

\* the elements a JSON array of the service may hold
Elements == {JDict(Rec(Tok(XOXP, "s"), PyAbsent, PyAbsent)), JDict(NoFields), JOther}

Lists == UNION {[1..n -> Elements] : n \in 0..MaxList}

Failures == {"transport", "status", "json"}

Https ==
    {HttpFail(f) : f \in Failures}
    \cup {HttpOk(JOther)}
    \cup {HttpOk(JDict(r)) : r \in Records}
    \cup {HttpOk(JList(l)) : l \in Lists}

\* the answers to the lookup of a user_id typed at the prompt
Https2 ==
    {HttpFail("transport"),
     HttpOk(JDict(Rec(Tok(XOXP, "m"), PyAbsent, PyAbsent))),
     HttpOk(JDict(NoFields))}

Inputs == {InputEof, InputLine(<<>>), InputLine(<<"u", "2">>)}

Hdr(bl, bu, ul, uu) ==
    [k \in HeaderNames |->
        CASE k = "x-slack-bot-token" -> bl
          [] k = "X-Slack-Bot-Token" -> bu
          [] k = "x-slack-user-token" -> ul
          [] OTHER -> uu]

Contexts ==
    {CtxNone, CtxEmpty, CtxWith(NoHeaders),
     CtxWith(Hdr(Tok(XOXB, "h"), PyAbsent, PyAbsent, PyAbsent)),
     CtxWith(Hdr(PyAbsent, Tok(XOXB, "H"), PyAbsent, PyAbsent)),
     CtxWith(Hdr(PyStr(<<>>), Tok(XOXB, "H"), PyAbsent, PyAbsent)),
     CtxWith(Hdr(Tok(XOXP, "h"), PyAbsent, PyAbsent, PyAbsent)),
     CtxWith(Hdr(PyAbsent, PyAbsent, Tok(XOXP, "g"), PyAbsent)),
     CtxWith(Hdr(PyAbsent, PyAbsent, PyStr(<<>>), Tok(XOXP, "G"))),
     CtxWith(Hdr(PyStr(<<>>), PyAbsent, PyStr(<<>>), PyAbsent)),
     CtxWith(Hdr(Tok(XOXB, "h"), PyAbsent, PyAbsent, Tok(XOXP, "G")))}

----------------------------------------------------------------------------
(* The state machine *)

NoCall ==
    [op |-> "none", ctx |-> CtxNone, use_bot |-> TRUE, user_id |-> PyNone,
     http1 |-> HttpFail("transport"), inp |-> InputEof,
     http2 |-> HttpFail("transport"), plat |-> <<>>,
     channel |-> [id |-> "", name |-> ""], invite_user_id |-> PyNone,
     keyword |-> <<>>, messages |-> <<>>]

NoOut ==
    [kind |-> "idle",
     envelope |-> [ok |-> FALSE, keys |-> {}, error |-> "",
                   channel |-> [id |-> "", name |-> ""], matches |-> <<>>]]

\* load_dotenv and the two os.getenv calls at import
Init ==
    /\ SLACK_BOT_TOKEN \in BotEnvValues
    /\ SLACK_USER_TOKEN \in UserEnvValues
    /\ phase = "idle"
    /\ call = NoCall
    /\ client = NoClient
    /\ out = NoOut
    /\ platform = <<>>

\* one call of get_slack_client_from_context
Resolve ==
    /\ phase = "idle"
    /\ \E ctx \in Contexts, use_bot \in BOOLEAN, user_id \in UserIds,
          http1 \in Https, inp \in Inputs, http2 \in Https2 :
          /\ call' = [NoCall EXCEPT !.op = "resolve", !.ctx = ctx,
                          !.use_bot = use_bot, !.user_id = user_id,
                          !.http1 = http1, !.inp = inp, !.http2 = http2]
          /\ client' = get_slack_client_from_context(ctx, use_bot, user_id,
                                                     http1, inp, http2)
    /\ phase' = "done"
    /\ UNCHANGED <<SLACK_BOT_TOKEN, SLACK_USER_TOKEN, out, platform>>

\* the result goes back to the caller; the server waits for the next request
Finish ==
    /\ phase = "done"
    /\ phase' = "idle"
    /\ call' = NoCall
    /\ client' = NoClient
    /\ out' = NoOut
    /\ platform' = <<>>
    /\ UNCHANGED <<SLACK_BOT_TOKEN, SLACK_USER_TOKEN>>

Next == Resolve \/ Finish

Spec == Init /\ [][Next]_vars

----------------------------------------------------------------------------
(* The tool handlers *)

\* what a platform call does: it returns, or raises SlackApiError whose
\* str() is error
PlatOk == [ok |-> TRUE, error |-> ""]
PlatErr(text) == [ok |-> FALSE, error |-> text]
Responses == {PlatOk, PlatErr("channel_not_found"), PlatErr("ratelimited")}

NoChannel == [id |-> "", name |-> ""]

\* the result envelope: the keys of the dict, and the values the
\* properties read
Envelope(ok, keys, error, channel, matches) ==
    [ok |-> ok, keys |-> keys, error |-> error, channel |-> channel,
     matches |-> matches]
NoEnvelope == Envelope(FALSE, {}, "", NoChannel, <<>>)

\* return {"ok": True, ...}
Success(keys) == Envelope(TRUE, keys, "", NoChannel, <<>>)

\* except SlackApiError as e: return {"ok": False, "error": str(e)}
Failure(text) == Envelope(FALSE, {"ok", "error"}, text, NoChannel, <<>>)

OutReturned(envelope) == [kind |-> "returned", envelope |-> envelope]
\* the ValueError of the resolver leaves the handler
OutRaised == [kind |-> "raised", envelope |-> NoEnvelope]

Sent(method, c, res) == [method |-> method, token |-> c.token, ok |-> res.ok]

\* the resolver inputs of a tool call
Requests ==
    [ctx : {CtxNone,
            CtxWith(Hdr(PyAbsent, Tok(XOXB, "H"), PyAbsent, PyAbsent)),
            CtxWith(Hdr(PyAbsent, PyAbsent, Tok(XOXP, "g"), PyAbsent))},
     user_id : {PyNone, PyStr(<<"u", "1">>)},
     http1 : {HttpFail("transport"),
              HttpOk(JDict(Rec(Tok(XOXP, "s"), PyAbsent, PyAbsent)))},
     inp : {InputEof},
     http2 : {HttpFail("transport")}]

ClientFor(use_bot, r) ==
    get_slack_client_from_context(r.ctx, use_bot, r.user_id, r.http1, r.inp, r.http2)

Started(op, use_bot, r) ==
    [NoCall EXCEPT !.op = op, !.use_bot = use_bot, !.ctx = r.ctx,
                   !.user_id = r.user_id, !.http1 = r.http1, !.inp = r.inp,
                   !.http2 = r.http2]

\* a handler of one platform call: resolve the client, then
\*   try: response = client.method(...); return {"ok": True, keys...}
\*   except SlackApiError as e: return {"ok": False, "error": str(e)}
OneCall(c, method, res, keys) ==
    IF c.kind = "error"
    THEN [out |-> OutRaised, platform |-> <<>>]
    ELSE [out |-> OutReturned(IF res.ok THEN Success(keys) ELSE Failure(res.error)),
          platform |-> <<Sent(method, c, res)>>]

\* the state after a tool call: its inputs, the client resolved, the
\* envelope returned and the platform calls issued
Ran(started, c, h) ==
    /\ call' = started
    /\ client' = c
    /\ out' = h.out
    /\ platform' = h.platform
    /\ phase' = "done"
    /\ UNCHANGED <<SLACK_BOT_TOKEN, SLACK_USER_TOKEN>>

slack_send_message ==
    /\ phase = "idle"
    /\ \E r \in Requests, res \in Responses :
          \E c \in {ClientFor(TRUE, r)} :
          \E h \in {OneCall(c, "chat_postMessage", res,
                             {"ok", "message_ts"})} :
             Ran([Started("slack_send_message", TRUE, r) EXCEPT !.plat = <<res>>], c, h)

slack_standup ==
    /\ phase = "idle"
    /\ \E r \in Requests, res \in Responses :
          \E c \in {ClientFor(TRUE, r)} :
          \E h \in {OneCall(c, "chat_postMessage", res,
                             {"ok", "message_ts", "message"})} :
             Ran([Started("slack_standup", TRUE, r) EXCEPT !.plat = <<res>>], c, h)

slack_fetch_conversation_history ==
    /\ phase = "idle"
    /\ \E r \in Requests, res \in Responses :
          \E c \in {ClientFor(FALSE, r)} :
          \E h \in {OneCall(c, "conversations_history", res,
                             {"ok", "messages"})} :
             Ran([Started("slack_fetch_conversation_history", FALSE, r) EXCEPT !.plat = <<res>>], c, h)

slack_list_users ==
    /\ phase = "idle"
    /\ \E r \in Requests, res \in Responses :
          \E c \in {ClientFor(TRUE, r)} :
          \E h \in {OneCall(c, "users_list", res,
                             {"ok", "users"})} :
             Ran([Started("slack_list_users", TRUE, r) EXCEPT !.plat = <<res>>], c, h)

slack_find_user_by_email ==
    /\ phase = "idle"
    /\ \E r \in Requests, res \in Responses :
          \E c \in {ClientFor(FALSE, r)} :
          \E h \in {OneCall(c, "users_lookupByEmail", res,
                             {"ok", "user"})} :
             Ran([Started("slack_find_user_by_email", FALSE, r) EXCEPT !.plat = <<res>>], c, h)

slack_list_channels ==
    /\ phase = "idle"
    /\ \E r \in Requests, res \in Responses :
          \E c \in {ClientFor(TRUE, r)} :
          \E h \in {OneCall(c, "conversations_list", res,
                             {"ok", "channels"})} :
             Ran([Started("slack_list_channels", TRUE, r) EXCEPT !.plat = <<res>>], c, h)

slack_schedule_message ==
    /\ phase = "idle"
    /\ \E r \in Requests, res \in Responses :
          \E c \in {ClientFor(TRUE, r)} :
          \E h \in {OneCall(c, "chat_scheduleMessage", res,
                             {"ok", "scheduled_message_id"})} :
             Ran([Started("slack_schedule_message", TRUE, r) EXCEPT !.plat = <<res>>], c, h)

slack_open_dm ==
    /\ phase = "idle"
    /\ \E r \in Requests, res \in Responses :
          \E c \in {ClientFor(FALSE, r)} :
          \E h \in {OneCall(c, "conversations_open", res,
                             {"ok", "channel_id"})} :
             Ran([Started("slack_open_dm", FALSE, r) EXCEPT !.plat = <<res>>], c, h)

slack_add_reaction ==
    /\ phase = "idle"
    /\ \E r \in Requests, res \in Responses :
          \E c \in {ClientFor(TRUE, r)} :
          \E h \in {OneCall(c, "reactions_add", res,
                             {"ok"})} :
             Ran([Started("slack_add_reaction", TRUE, r) EXCEPT !.plat = <<res>>], c, h)

slack_list_user_conversations ==
    /\ phase = "idle"
    /\ \E r \in Requests, res \in Responses :
          \E c \in {ClientFor(FALSE, r)} :
          \E h \in {OneCall(c, "users_conversations", res,
                             {"ok", "conversations"})} :
             Ran([Started("slack_list_user_conversations", FALSE, r) EXCEPT !.plat = <<res>>], c, h)

\* a handler of two platform calls in one try block: the second is made
\* when the first returned and wanted holds (TwoCallsSecondUnchecked lets
\* the failure of the second call go unreported)
TwoCallsSecondUnchecked(c, m1, res1, wanted, m2, res2, envelope) ==
    IF c.kind = "error"
    THEN [out |-> OutRaised, platform |-> <<>>]
    ELSE IF ~res1.ok
    THEN [out |-> OutReturned(Failure(res1.error)),
          platform |-> <<Sent(m1, c, res1)>>]
    ELSE IF ~wanted
    THEN [out |-> OutReturned(envelope), platform |-> <<Sent(m1, c, res1)>>]
    ELSE [out |-> OutReturned(envelope),
          platform |-> <<Sent(m1, c, res1), Sent(m2, c, res2)>>]
TwoCalls(c, m1, res1, wanted, m2, res2, envelope) ==
    IF c.kind = "error"
    THEN [out |-> OutRaised, platform |-> <<>>]
    ELSE IF ~res1.ok
    THEN [out |-> OutReturned(Failure(res1.error)),
          platform |-> <<Sent(m1, c, res1)>>]
    ELSE IF ~wanted
    THEN [out |-> OutReturned(envelope), platform |-> <<Sent(m1, c, res1)>>]
    ELSE [out |-> OutReturned(IF res2.ok THEN envelope ELSE Failure(res2.error)),
          platform |-> <<Sent(m1, c, res1), Sent(m2, c, res2)>>]

Channels == {[id |-> "C1", name |-> "dev"], [id |-> "C2", name |-> "ops"]}
InviteIds == {PyNone, PyStr(<<>>), PyStr(<<"U", "7">>)}

slack_create_channel ==
    /\ phase = "idle"
    /\ \E r \in Requests, res1 \in Responses, res2 \in Responses,
          channel \in Channels, invite_user_id \in InviteIds :
          \E c \in {ClientFor(TRUE, r)} :
          \E h \in {TwoCalls(c, "conversations_create", res1,
                             Truthy(invite_user_id), "conversations_invite", res2,
                             Envelope(TRUE, {"ok", "channel"}, "", channel, <<>>))} :
             Ran([Started("slack_create_channel", TRUE, r) EXCEPT
                      !.plat = <<res1, res2>>, !.channel = channel,
                      !.invite_user_id = invite_user_id], c, h)

slack_get_user_profile ==
    /\ phase = "idle"
    /\ \E r \in Requests, res1 \in Responses, res2 \in Responses :
          \E c \in {ClientFor(FALSE, r)} :
          \E h \in {TwoCalls(c, "auth_test", res1, TRUE, "users_profile_get", res2,
                             Success({"ok", "user_id", "profile"}))} :
             Ran([Started("slack_get_user_profile", FALSE, r) EXCEPT
                      !.plat = <<res1, res2>>], c, h)

\* str.lower, on the letters of the model
LowerChar(ch) ==
    CASE ch = "A" -> "a"
      [] ch = "B" -> "b"
      [] OTHER -> ch
Lower(chars) == [i \in 1..Len(chars) |-> LowerChar(chars[i])]

\* sub in chars
Contains(sub, chars) ==
    \E i \in 1..(Len(chars) - Len(sub) + 1) :
        SubSeq(chars, i, i + Len(sub) - 1) = sub

\* keyword.lower() in msg.get("text", "").lower() (MatchesCaseSensitive
\* leaves out the two lower())
MatchesCaseSensitive(keyword, msg) ==
    Contains(keyword, IF msg.text.t = "absent" THEN <<>> ELSE msg.text.s)
Matches(keyword, msg) ==
    Contains(Lower(keyword),
             Lower(IF msg.text.t = "absent" THEN <<>> ELSE msg.text.s))

\* [msg for msg in history["messages"] if ...]
Matched(keyword, messages) ==
    SelectSeq(messages, LAMBDA msg : Matches(keyword, msg))

Texts ==
    {PyAbsent, PyStr(<<>>), PyStr(<<"a", "b">>), PyStr(<<"A", "B">>),
     PyStr(<<"b", "a">>), PyStr(<<"x", "a", "B">>)}
Keywords == {<<>>, <<"a", "b">>, <<"A", "b">>, <<"B">>, <<"a", "b", "a">>}

\* the histories the platform returns: each message has its own ts
Histories ==
    UNION {{[i \in 1..n |-> [ts |-> i, text |-> t[i]]] : t \in [1..n -> Texts]}
           : n \in 0..MaxMsgs}

\* the envelope of slack_search_messages: matches is set on success
WithMatches(h, keyword, messages) ==
    IF h.out.kind = "returned" /\ h.out.envelope.ok
    THEN [h EXCEPT !.out.envelope.matches = Matched(keyword, messages)]
    ELSE h

slack_search_messages ==
    /\ phase = "idle"
    /\ \E r \in Requests, res \in Responses, keyword \in Keywords,
          messages \in Histories :
          \E c \in {ClientFor(FALSE, r)} :
          \E h \in {OneCall(c, "conversations_history", res, {"ok", "matches"})} :
             Ran([Started("slack_search_messages", FALSE, r) EXCEPT
                      !.plat = <<res>>, !.keyword = keyword,
                      !.messages = IF res.ok THEN messages ELSE <<>>],
                 c, WithMatches(h, keyword, messages))

\* the server with its tools
InitTools ==
    /\ SLACK_BOT_TOKEN \in {PyNone, Tok(XOXB, "e")}
    /\ SLACK_USER_TOKEN \in {PyNone, Tok(XOXP, "f")}
    /\ phase = "idle"
    /\ call = NoCall
    /\ client = NoClient
    /\ out = NoOut
    /\ platform = <<>>

NextTools ==
    \/ slack_send_message
    \/ slack_standup
    \/ slack_fetch_conversation_history
    \/ slack_list_users
    \/ slack_find_user_by_email
    \/ slack_list_channels
    \/ slack_schedule_message
    \/ slack_create_channel
    \/ slack_open_dm
    \/ slack_add_reaction
    \/ slack_search_messages
    \/ slack_get_user_profile
    \/ slack_list_user_conversations
    \/ Finish

SpecTools == InitTools /\ [][NextTools]_vars

----------------------------------------------------------------------------
(* Vocabulary of the properties *)

ResolverRan == phase = "done" /\ client.kind # "idle"

\* a usable token: present and a non-empty string
Usable(v) == v.t = "str" /\ Len(v.s) > 0

IsUserToken(v) == v.t = "str" /\ StartsWith(v.s, XOXP)

\* the record an answer of the token service carries, if any
ServiceRecord(http) ==
    IF http.status # "ok" THEN NoFields
    ELSE IF http.body.shape = "dict" THEN http.body.fields
    ELSE IF http.body.shape = "list" /\ Len(http.body.items) > 0
            /\ http.body.items[1].shape = "dict"
    THEN http.body.items[1].fields
    ELSE NoFields

\* the token of a record for a credential class: for BOT the bot-token field,
\* then the nested authed-user location, then access_token, a token with
\* the USER prefix being of no use to BOT; for USER access_token
RecordToken(use_bot, http) ==
    LET r == ServiceRecord(http)
        found == IF use_bot /\ Usable(r["bot_token"]) THEN r["bot_token"]
                 ELSE IF use_bot /\ Usable(r["authed_user_token"])
                 THEN r["authed_user_token"]
                 ELSE IF Usable(r["access_token"]) THEN r["access_token"]
                 ELSE PyNone
    IN  IF use_bot /\ IsUserToken(found) THEN PyNone ELSE found

ClassHeaders(use_bot) ==
    IF use_bot THEN {"x-slack-bot-token", "X-Slack-Bot-Token"}
    ELSE {"x-slack-user-token", "X-Slack-User-Token"}

\* the non-empty values the context carries in the headers of a class
ClassHeaderValues(ctx, use_bot) ==
    IF ctx.kind = "full"
    THEN {ctx.headers[k] : k \in {n \in ClassHeaders(use_bot) : Usable(ctx.headers[n])}}
    ELSE {}

ClassEnv(use_bot) == IF use_bot THEN SLACK_BOT_TOKEN ELSE SLACK_USER_TOKEN

Events(trace) == {trace[i].ev : i \in 1..Len(trace)}

\* a line of an error message holds the word
Names(message, word) ==
    \E i \in 1..Len(message) : \E j \in 1..Len(message[i]) : message[i][j] = word

----------------------------------------------------------------------------
(* Properties of the credential resolver, checked under Spec *)

\* C1: for both classes and every non-empty identity, when the token service
\* returns a record with a usable token for the class, the client is built
\* from exactly that token and neither the headers nor the environment are
\* read.
C1_ServiceTokenWins ==
    (ResolverRan /\ Truthy(call.user_id)
        /\ Usable(RecordToken(call.use_bot, call.http1)))
    => /\ client.kind = "client"
       /\ client.token = RecordToken(call.use_bot, call.http1)
       /\ Events(client.trace) \cap {"headers", "env"} = {}

\* C2: for both classes, when the token service is unreachable or returns a
\* record without a usable token and the context carries a non-empty header
\* of the class, the client is built from that header value.
C2_HeaderAfterFailedService ==
    (ResolverRan /\ Truthy(call.user_id)
        /\ ~Usable(RecordToken(call.use_bot, call.http1))
        /\ ClassHeaderValues(call.ctx, call.use_bot) # {})
    => /\ client.kind = "client"
       /\ client.token \in ClassHeaderValues(call.ctx, call.use_bot)

\* C3: for both classes, when neither the service step nor the header step
\* yields a token and the environment fallback of the class is set and
\* non-empty, the client is built from that fallback and nothing is raised;
\* the fallback of the other class is never used.
C3_EnvFallback ==
    ResolverRan =>
    /\ (/\ client.source # "service"
        /\ ClassHeaderValues(call.ctx, call.use_bot) = {}
        /\ Usable(ClassEnv(call.use_bot)))
       => (client.kind = "client" /\ client.token = ClassEnv(call.use_bot))
    /\ client.source = "env" => client.token = ClassEnv(call.use_bot)

C3_Witness ==
    /\ ResolverRan /\ ~call.use_bot /\ Truthy(call.user_id)
    /\ call.http1.status = "transport"
    /\ Usable(SLACK_BOT_TOKEN) /\ Usable(SLACK_USER_TOKEN)
    /\ client.source = "env" /\ client.token = SLACK_USER_TOKEN

\* the token service holds a usable token for the call: for the identity
\* passed, or for the identity typed at the prompt when the resolver asked
ServiceHolds ==
    /\ Truthy(call.user_id)
    /\ \/ Usable(RecordToken(call.use_bot, call.http1))
       \/ /\ "input" \in Events(client.trace)
          /\ ~call.inp.eof /\ Truthy(call.inp.line)
          /\ Usable(RecordToken(call.use_bot, call.http2))

\* C4: for both classes the resolver raises if and only if no source (token
\* service, class header, class environment fallback) yields a usable token,
\* and the message names the three remedies of the class: user_id, the
\* header and the environment variable.
C4_RaisesIffNoSource ==
    ResolverRan =>
    /\ client.kind = "error"
        <=> (/\ ~ServiceHolds
             /\ ClassHeaderValues(call.ctx, call.use_bot) = {}
             /\ ~Usable(ClassEnv(call.use_bot)))
    /\ client.kind = "error" =>
        /\ Names(client.message, "user_id")
        /\ Names(client.message,
                 IF call.use_bot THEN "X-Slack-Bot-Token" ELSE "X-Slack-User-Token")
        /\ Names(client.message,
                 IF call.use_bot THEN "SLACK_BOT_TOKEN" ELSE "SLACK_USER_TOKEN")

C6_ServiceFailureFallsThrough ==
    (ResolverRan /\ ~call.use_bot /\ Truthy(call.user_id)
        /\ ~Usable(RecordToken(FALSE, call.http1)))
    => /\ client.kind \in {"client", "error"}
       /\ "headers" \in Events(client.trace)

\* C9: for both classes, a call without identity issues no request to the
\* token service; the first source consulted is the request headers.
C9_NoIdentityNoFetch ==
    (ResolverRan /\ ~Truthy(call.user_id))
    => /\ "fetch" \notin Events(client.trace)
       /\ "input" \notin Events(client.trace)
       /\ client.trace[1].ev = "headers"

C9_Witness ==
    /\ ResolverRan /\ ~call.use_bot /\ call.user_id = PyStr(<<>>)
    /\ client.kind = "client" /\ client.source = "header"
    /\ Len(client.trace) = 1

----------------------------------------------------------------------------
(* Properties of the tool handlers, checked under SpecTools *)

\* a tool handler ran with a credential resolved
ToolRan == phase = "done" /\ call.op # "resolve" /\ client.kind = "client"

Failed == {i \in 1..Len(platform) : ~platform[i].ok}

\* the error texts of the platform calls that were issued and failed
FailedTexts == {call.plat[i].error : i \in Failed}

CasePairs == {<<"a", "A">>, <<"b", "B">>}
SameLetter(x, y) == x = y \/ <<x, y>> \in CasePairs \/ <<y, x>> \in CasePairs

\* text holds keyword as a substring, case ignored
HoldsIgnoringCase(keyword, text) ==
    \E off \in 0..(Len(text) - Len(keyword)) :
        \A j \in 1..Len(keyword) : SameLetter(keyword[j], text[off + j])

TextOf(msg) == IF msg.text.t = "str" THEN msg.text.s ELSE <<>>

\* the positions of the fetched messages that hold the keyword
Hits ==
    {i \in 1..Len(call.messages) :
        HoldsIgnoringCase(call.keyword, TextOf(call.messages[i]))}

\* the k-th smallest position of a set of positions
Nth(set, k) == CHOOSE i \in set : Cardinality({j \in set : j < i}) = k - 1

SearchReturned ==
    /\ ToolRan /\ call.op = "slack_search_messages"
    /\ out.kind = "returned" /\ out.envelope.ok

\* C8: for every keyword and every fetched message sequence,
\* slack_search_messages returns in matches exactly the messages whose text
\* holds the keyword as a substring, case ignored, in the fetched order,
\* none duplicated or altered; a message without text counts as empty text.
C8_SearchExactSubset ==
    SearchReturned =>
    /\ Len(out.envelope.matches) = Cardinality(Hits)
    /\ \A k \in 1..Len(out.envelope.matches) :
          out.envelope.matches[k] = call.messages[Nth(Hits, k)]

C8_Witness ==
    /\ SearchReturned
    /\ call.keyword = <<"A", "b">>
    /\ Len(call.messages) = 3
    /\ call.messages[1].text = PyStr(<<"x", "a", "B">>)
    /\ call.messages[2].text = PyAbsent
    /\ call.messages[3].text = PyStr(<<"a", "b">>)
    /\ Len(out.envelope.matches) = 2
    /\ out.envelope.matches[2].ts = 3

Created ==
    \E i \in 1..Len(platform) :
        platform[i].method = "conversations_create" /\ platform[i].ok

\* C10: for slack_create_channel the success flag agrees with the mutation:
\* a failure envelope means no channel was created in the call, a create
\* that succeeded means ok true with the id and name of the channel; the
\* invite is issued only after a successful create and only when
\* invite_user_id is non-empty.
C10_CreateAgreesWithEnvelope ==
    (ToolRan /\ call.op = "slack_create_channel") =>
    /\ out.kind = "returned"
    /\ ~out.envelope.ok => ~Created
    /\ Created => /\ out.envelope.ok
                  /\ out.envelope.channel = call.channel
    /\ \A i \in 1..Len(platform) :
          platform[i].method = "conversations_invite" =>
              /\ i = 2
              /\ platform[1].method = "conversations_create" /\ platform[1].ok
              /\ Truthy(call.invite_user_id)

====
